---- MODULE Spec2Model ----
(***************************************************************************)
(* TradeGraph backend: the request pipeline of the NestJS controllers      *)
(* (JwtAuthGuard, TierGuard, ValidationPipe, handler), the tier guard as a *)
(* function of its inputs, the shipment export throttle, the tariff        *)
(* service, and the validation and execution of shipment searches.         *)
(***************************************************************************)
EXTENDS Integers, Sequences, FiniteSets, TLC

VARIABLES
  req,     \* per connection: the request in flight (route, Authorization
           \* header, body, request.user, the steps run so far, the response)
  log,     \* per organization and credit type: metered requests answered
           \* (ok, err) and the credits the operations served are worth
  issued,  \* number of requests accepted so far
  tg,      \* one call of TierGuard.canActivate: its inputs and its verdict
  ex,      \* one call of ShipmentsService.export: its inputs and its result
  tf,      \* one request to TariffsController: its query parameters and the
           \* value answered
  sq,      \* one request carrying a shipment query: the body sent, the
           \* SearchShipmentsDto made of it, the validation errors, the result
  mono,    \* two shipment searches whose queries differ in one range bound
  rq,      \* per query key: the state of the frontend QueryClient's query
           \* (attempts made, failures counted, data or error)
  cl       \* one request to CompaniesController's similar or timeline route:
           \* the query parameter sent and the value handed to the service

vars == <<req, log, issued, tg, ex, tf, sq, mono, rq, cl>>

(***************************************************************************)
(* Bounds of the model.                                                    *)
(***************************************************************************)
NSlots == 2
MaxRequests == 3
MaxBatch == 2
MaxChecks == 102
NQueries == 3

Slots == 1..NSlots

(***************************************************************************)
(* JavaScript values.  A looked-up value is a number, undefined, or an     *)
(* inherited property of Object.prototype (a function such as              *)
(* "constructor"), which a plain-object map returns for such a key.        *)
(***************************************************************************)
Undefined == "<undefined>"

JsNum(n) == [kind |-> "num", n |-> n]

JsUndef == [kind |-> "undef", n |-> 0]

JsFn == [kind |-> "fn", n |-> 0]

ProtoKeys == {"constructor"}

\* table[key] on an object literal whose own keys are DOMAIN table
JsLookup(table, key) ==
  IF key \in DOMAIN table THEN JsNum(table[key])
  ELSE IF key \in ProtoKeys THEN JsFn
  ELSE JsUndef

\* v is falsy: undefined, or the number 0
JsFalsy(v) == v.kind = "undef" \/ (v.kind = "num" /\ v.n = 0)

\* v || d
JsOr(v, d) == IF JsFalsy(v) THEN d ELSE v

\* a >= b: numeric on numbers; two functions compare as their (equal) source
\* strings; a function against a number converts to NaN and compares false
JsGE(a, b) ==
  IF a.kind = "num" /\ b.kind = "num" THEN a.n >= b.n
  ELSE a.kind = "fn" /\ b.kind = "fn"

(***************************************************************************)
(* Tiers, users, operations.                                               *)
(***************************************************************************)
Tiers == {"STARTER", "PRO", "ENTERPRISE", "GOV", "CHAMBER"}

tierHierarchy_CHAMBER_as_PRO ==
  [t \in Tiers |->
     CASE t = "STARTER" -> 1
       [] t = "PRO" -> 2
       [] t = "ENTERPRISE" -> 3
       [] t = "GOV" -> 4
       [] t = "CHAMBER" -> 2]

tierHierarchy ==
  [t \in Tiers |->
     CASE t = "STARTER" -> 1
       [] t = "PRO" -> 2
       [] t = "ENTERPRISE" -> 3
       [] t = "GOV" -> 4
       [] t = "CHAMBER" -> 3]

NoUser == [id |-> Undefined, organizationId |-> Undefined,
           tier |-> Undefined, role |-> Undefined]

DevUser == [id |-> "dev-user", organizationId |-> "dev-org",
            tier |-> "PRO", role |-> "ADMIN"]

MockUser_Enterprise == [id |-> "user-123", organizationId |-> "org-456",
                        tier |-> "ENTERPRISE", role |-> "ANALYST"]

MockUser == [id |-> "user-123", organizationId |-> "org-456",
             tier |-> "PRO", role |-> "ANALYST"]

Orgs == {"dev-org", "org-456"}

ComplianceOps == {"runCheck", "runBatchCheck", "getCheckHistory",
                  "getCheckResult", "exportCheckPdf", "runPepCheck",
                  "runAdverseMediaCheck", "getCreditsBalance"}

ShipmentOps == {"searchShipments", "getShipment", "getShipmentsByCompany",
                "exportShipments", "getRouteAnalytics", "getPriceDistribution"}

CompanyOps == {"getCompany", "searchCompanies", "getTradePartners",
               "getSimilarCompanies", "getOfficers", "getUBOs",
               "getTradeTimeline"}

TariffOps == {"getDutyRates", "getTradeMeasures", "getHsCodeDetails",
              "searchHsCodes", "getFTAs", "calculateLandedCost",
              "simulatePolicyImpact"}

Operations == ComplianceOps \cup ShipmentOps \cup CompanyOps \cup TariffOps

\* @RequiresTier of each handler, as a handler requiring STARTER for PEP checks
RequiresTier_PepStarter(op) ==
  CASE op \in {"runBatchCheck", "getRouteAnalytics",
               "getPriceDistribution", "getSimilarCompanies",
               "getTradeTimeline", "calculateLandedCost"} -> "PRO"
    [] op \in {"runAdverseMediaCheck", "getUBOs"} -> "ENTERPRISE"
    [] op = "simulatePolicyImpact" -> "GOV"
    [] OTHER -> "STARTER"

\* @RequiresTier of each handler
RequiresTier(op) ==
  CASE op \in {"runBatchCheck", "runPepCheck", "getRouteAnalytics",
               "getPriceDistribution", "getSimilarCompanies",
               "getTradeTimeline", "calculateLandedCost"} -> "PRO"
    [] op \in {"runAdverseMediaCheck", "getUBOs"} -> "ENTERPRISE"
    [] op = "simulatePolicyImpact" -> "GOV"
    [] OTHER -> "STARTER"

CreditTypes == {"COMPLIANCE_CHECK", "COMPLIANCE_CHECK_BATCH", "PEP_CHECK",
                "ADVERSE_MEDIA_CHECK"}

MeteredOps == {"runCheck", "runBatchCheck", "runPepCheck",
               "runAdverseMediaCheck"}

\* @CheckCredits of each metered handler, as handlers whose batch check
\* draws on the credit type of the single check
CheckCredits_BatchShared(op) ==
  CASE op \in {"runCheck", "runBatchCheck"} -> "COMPLIANCE_CHECK"
    [] op = "runPepCheck" -> "PEP_CHECK"
    [] op = "runAdverseMediaCheck" -> "ADVERSE_MEDIA_CHECK"

\* @CheckCredits of each metered handler
CheckCredits(op) ==
  CASE op = "runCheck" -> "COMPLIANCE_CHECK"
    [] op = "runBatchCheck" -> "COMPLIANCE_CHECK_BATCH"
    [] op = "runPepCheck" -> "PEP_CHECK"
    [] op = "runAdverseMediaCheck" -> "ADVERSE_MEDIA_CHECK"

(***************************************************************************)
(* TierGuard.canActivate as a function of the handler's required tier and  *)
(* the request's user.                                                     *)
(***************************************************************************)
TierGuard_canActivate_DefaultPro(requiredTier, user) ==
  IF requiredTier \in {Undefined, ""} THEN TRUE
  ELSE LET userTier == IF user.tier \in {Undefined, ""} THEN "PRO"
                       ELSE user.tier
           requiredLevel == JsOr(JsLookup(tierHierarchy, requiredTier), JsNum(0))
           userLevel == JsOr(JsLookup(tierHierarchy, userTier), JsNum(0))
       IN JsGE(userLevel, requiredLevel)

TierGuard_canActivate(requiredTier, user) ==
  IF requiredTier \in {Undefined, ""} THEN TRUE
  ELSE LET userTier == IF user.tier \in {Undefined, ""} THEN "STARTER"
                       ELSE user.tier
           requiredLevel == JsOr(JsLookup(tierHierarchy, requiredTier), JsNum(0))
           userLevel == JsOr(JsLookup(tierHierarchy, userTier), JsNum(0))
       IN JsGE(userLevel, requiredLevel)

(***************************************************************************)
(* ComplianceService: every method returns a fixed stub result.            *)
(***************************************************************************)
CreditsRemaining == 100

CreditsTotal == 100

\* ComplianceService.runCheck: the result of a single sanctions check
ComplianceService_runCheck(user) ==
  [kind |-> "check", status |-> "CLEAR", checkedBy |-> user.id,
   creditsRemaining |-> CreditsRemaining]

\* ComplianceService.runBatchCheck: one CLEAR item per company id
ComplianceService_runBatchCheck(n) ==
  [kind |-> "batch", status |-> "CLEAR", items |-> n]

\* ComplianceService.getCreditsBalance
ComplianceService_getCreditsBalance(organizationId) ==
  [organizationId |-> organizationId, remaining |-> CreditsRemaining,
   total |-> CreditsTotal]

\* ComplianceService.getHistory: the organization's audit trail of checks
ComplianceService_getHistory(organizationId) == <<>>

\* The credit ledger of an organization.  @CheckCredits only attaches the
\* 'creditType' metadata to the handler; no guard or interceptor reads it, so
\* no entry is ever written.
CreditLedger(organizationId) == <<>>

(***************************************************************************)
(* The request pipeline.  Nest runs the controller's guards in the order   *)
(* of @UseGuards(JwtAuthGuard, TierGuard), then the global ValidationPipe  *)
(* on a class-typed body, then the handler.                                *)
(***************************************************************************)
NoResponse == [kind |-> "none"]

HttpError(code) == [kind |-> "error", statusCode |-> code]

IdleReq == [pc |-> "idle", op |-> "", auth |-> FALSE, bodyOk |-> TRUE, n |-> 0,
            user |-> NoUser, steps |-> <<>>, response |-> NoResponse,
            cancelled |-> FALSE]

\* handlers whose @Body() is a class with class-validator decorators
ValidatedOps == {"runCheck", "searchShipments", "exportShipments"}

\* lengths of body.companyIds: short lists, and one longer than the allowance
BatchSizes == (0..MaxBatch) \cup {CreditsTotal + 1}

\* requests a client can send: the operation, whether an Authorization header
\* is present, whether the body is well-formed, the number of company ids
AllInputs ==
  {[op |-> o, auth |-> a, bodyOk |-> b, n |-> k] :
     o \in Operations, a \in BOOLEAN, b \in BOOLEAN, k \in BatchSizes}

RequestInputs ==
  {i \in AllInputs :
     /\ (i.op \notin ValidatedOps \cup {"runBatchCheck"} => i.bodyOk)
     /\ (i.op # "runBatchCheck" \/ ~i.bodyOk => i.n = 0)}

\* well-formed single checks sent without an Authorization header
CheckInputs ==
  {i \in RequestInputs : i.op = "runCheck" /\ ~i.auth /\ i.bodyOk}

NoUsage == [ok |-> 0, err |-> 0, credits |-> 0]

\* credits an operation is documented to consume
CreditCost(r) == IF r.op = "runBatchCheck" THEN r.n ELSE 1

Record(usage, r, field, k) ==
  IF r.op \in MeteredOps
  THEN LET o == r.user.organizationId
           t == CheckCredits(r.op)
       IN [usage EXCEPT ![o][t][field] = @ + k]
  ELSE usage

PipelineInit ==
  /\ req = [s \in Slots |-> IdleReq]
  /\ log = [o \in Orgs |-> [t \in CreditTypes |-> NoUsage]]
  /\ issued = 0

Arrive(s, inputs, max) ==
  /\ req[s].pc = "idle"
  /\ issued < max
  /\ \E i \in inputs :
       req' = [req EXCEPT ![s] = [IdleReq EXCEPT !.pc = "jwt", !.op = i.op,
                                   !.auth = i.auth, !.bodyOk = i.bodyOk,
                                   !.n = i.n]]
  /\ issued' = issued + 1
  /\ UNCHANGED <<log, tg, ex, tf, sq, mono, rq, cl>>

\* JwtAuthGuard.canActivate: always admits, and sets request.user
JwtAuthGuard(s) ==
  /\ req[s].pc = "jwt"
  /\ req' = [req EXCEPT ![s].user = IF ~req[s].auth THEN DevUser ELSE MockUser,
                        ![s].steps = Append(@, "AUTH"),
                        ![s].pc = "tier"]
  /\ UNCHANGED <<log, issued, tg, ex, tf, sq, mono, rq, cl>>

\* TierGuard.canActivate on the request; false makes Nest answer 403
TierGuard(s) ==
  /\ req[s].pc = "tier"
  /\ LET pass == TierGuard_canActivate(RequiresTier(req[s].op), req[s].user)
     IN /\ req' = [req EXCEPT ![s].steps = Append(@, "CHECK_TIER"),
                              ![s].pc = IF pass THEN "pipe" ELSE "done",
                              ![s].response = IF pass THEN @ ELSE HttpError(403)]
        /\ log' = IF pass THEN log ELSE Record(log, req[s], "err", 1)
  /\ UNCHANGED <<issued, tg, ex, tf, sq, mono, rq, cl>>

\* the global ValidationPipe: a malformed class-typed body is answered 400
ValidationPipe(s) ==
  /\ req[s].pc = "pipe"
  /\ LET pass == req[s].op \notin ValidatedOps \/ req[s].bodyOk
     IN /\ req' = [req EXCEPT ![s].steps = Append(@, "VALIDATE"),
                              ![s].pc = IF pass THEN "handler" ELSE "done",
                              ![s].response = IF pass THEN @ ELSE HttpError(400)]
        /\ log' = IF pass THEN log ELSE Record(log, req[s], "err", 1)
  /\ UNCHANGED <<issued, tg, ex, tf, sq, mono, rq, cl>>

\* the controller method and the service method it returns
HandlerResult(r) ==
  CASE r.op = "runCheck" -> ComplianceService_runCheck(r.user)
    [] r.op = "runBatchCheck" ->
         IF r.bodyOk THEN ComplianceService_runBatchCheck(r.n)
         ELSE HttpError(500)
    [] r.op = "getCreditsBalance" ->
         [kind |-> "balance",
          balance |-> ComplianceService_getCreditsBalance(r.user.organizationId)]
    [] r.op = "getCheckHistory" ->
         [kind |-> "history",
          items |-> ComplianceService_getHistory(r.user.organizationId)]
    [] OTHER -> [kind |-> "ok"]

Handler(s) ==
  /\ req[s].pc = "handler"
  /\ LET res == HandlerResult(req[s])
     IN /\ req' = [req EXCEPT ![s].steps = Append(@, "INVOKE"),
                              ![s].pc = "done",
                              ![s].response = res]
        /\ log' = IF res.kind = "error" THEN Record(log, req[s], "err", 1)
                  ELSE Record(Record(log, req[s], "ok", 1),
                              req[s], "credits", CreditCost(req[s]))
  /\ UNCHANGED <<issued, tg, ex, tf, sq, mono, rq, cl>>

\* the caller disconnects while its request is in flight: no guard, pipe or
\* handler listens for the close of the connection, so the request runs on
Cancel(s) ==
  /\ req[s].pc \notin {"idle", "done"}
  /\ ~req[s].cancelled
  /\ req' = [req EXCEPT ![s].cancelled = TRUE]
  /\ UNCHANGED <<log, issued, tg, ex, tf, sq, mono, rq, cl>>

\* the response is sent and the connection is free for the next request
Respond(s) ==
  /\ req[s].pc = "done"
  /\ req' = [req EXCEPT ![s] = IdleReq]
  /\ UNCHANGED <<log, issued, tg, ex, tf, sq, mono, rq, cl>>

(***************************************************************************)
(* TierGuard.canActivate applied to any handler metadata and any user.     *)
(***************************************************************************)
\* handlers declared outside the four controllers: their 'requiredTier'
\* metadata is absent, empty, or any string
AdhocRequired == Tiers \cup {Undefined, "", "PLATINUM", "constructor"}

GuardTiers == Tiers \cup {Undefined, "", "TRIAL", "constructor"}

GuardUsers == {NoUser} \cup {[DevUser EXCEPT !.tier = t] : t \in GuardTiers}

GuardIdle == [phase |-> "idle", handler |-> "", requiredTier |-> Undefined,
              user |-> NoUser, userAfter |-> NoUser, verdict |-> FALSE]

GuardInit == tg = GuardIdle

\* reflector.get('requiredTier', context.getHandler())
GuardCall ==
  /\ tg.phase \in {"idle", "returned"}
  /\ \E u \in GuardUsers :
       \/ \E h \in Operations :
            tg' = [GuardIdle EXCEPT !.phase = "called", !.handler = h,
                                    !.requiredTier = RequiresTier(h),
                                    !.user = u, !.userAfter = u]
       \/ \E r \in AdhocRequired :
            tg' = [GuardIdle EXCEPT !.phase = "called", !.handler = "adhoc",
                                    !.requiredTier = r,
                                    !.user = u, !.userAfter = u]
  /\ UNCHANGED <<req, log, issued, ex, tf, sq, mono, rq, cl>>

GuardReturn ==
  /\ tg.phase = "called"
  /\ tg' = [tg EXCEPT !.phase = "returned",
                      !.verdict = TierGuard_canActivate(tg.requiredTier, tg.user)]
  /\ UNCHANGED <<req, log, issued, ex, tf, sq, mono, rq, cl>>

(***************************************************************************)
(* ShipmentsService.export applied to any user tier and format, for a      *)
(* query matching any number of shipments.                                 *)
(***************************************************************************)
rowLimits ==
  [t \in {"STARTER", "PRO", "ENTERPRISE", "GOV"} |->
     CASE t = "STARTER" -> 500
       [] t = "PRO" -> 5000
       [] t = "ENTERPRISE" -> 50000
       [] t = "GOV" -> 100000]

\* the value returned: the message carries the limit, and the format
ShipmentsService_export(format, user) ==
  LET limit == JsOr(JsLookup(rowLimits, user.tier), JsNum(500))
  IN [message |-> [text |-> "Export initiated with limit of ${limit} rows",
                   limit |-> limit],
      format |-> format]

ExportTiers == Tiers \cup {"TRIAL", "constructor"}

ExportFormats == {"csv", "xlsx"}

\* number of shipments the query matches in the index
MatchTotals == {0, 499, 500, 501, 5000, 10000, 50001, 100001}

ExportIdle == [phase |-> "idle", format |-> "csv", user |-> NoUser,
               matched |-> 0, response |-> [kind |-> "none"]]

ExportInit == ex = ExportIdle

ExportCall ==
  /\ ex.phase \in {"idle", "returned"}
  /\ \E t \in ExportTiers, f \in ExportFormats, m \in MatchTotals :
       ex' = [ExportIdle EXCEPT !.phase = "called", !.format = f,
                                !.user = [DevUser EXCEPT !.tier = t],
                                !.matched = m]
  /\ UNCHANGED <<req, log, issued, tg, tf, sq, mono, rq, cl>>

ExportReturn ==
  /\ ex.phase = "called"
  /\ ex' = [ex EXCEPT !.phase = "returned",
                      !.response = ShipmentsService_export(ex.format, ex.user)]
  /\ UNCHANGED <<req, log, issued, tg, tf, sq, mono, rq, cl>>

(***************************************************************************)
(* Numbers of the tariff arithmetic.  A JavaScript number is carried as a  *)
(* count of hundredths, in which 0.2, r / 100 for a whole r, and their     *)
(* products with the whole amounts used here are exact; NaN is a value of  *)
(* its own and absorbs every operation.                                    *)
(***************************************************************************)
Fixed(n) == JsNum(n * 100)

JsNaN == [kind |-> "nan", n |-> 0]

JsAdd(a, b) ==
  IF a.kind = "num" /\ b.kind = "num" THEN JsNum(a.n + b.n) ELSE JsNaN

JsMul(a, b) ==
  IF a.kind = "num" /\ b.kind = "num" THEN JsNum((a.n * b.n) \div 100)
  ELSE JsNaN

\* a / b for a divisor other than 0
JsDiv(a, b) ==
  IF a.kind = "num" /\ b.kind = "num" /\ b.n # 0
  THEN JsNum((a.n * 100) \div b.n)
  ELSE JsNaN

(***************************************************************************)
(* TariffsService, and the TariffsController routes that hand their query  *)
(* parameters to it.  A string is carried as the sequence of its           *)
(* characters.                                                             *)
(***************************************************************************)
TariffsService_getDutyRates_Rate5(hsCode, origin, destination) ==
  [hsCode |-> hsCode, origin |-> origin, destination |-> destination,
   mfnRate |-> Fixed(0), preferentialRates |-> <<>>, tradeMeasures |-> <<>>,
   effectiveTotalRate |-> Fixed(5)]

TariffsService_getDutyRates(hsCode, origin, destination) ==
  [hsCode |-> hsCode, origin |-> origin, destination |-> destination,
   mfnRate |-> Fixed(0), preferentialRates |-> <<>>, tradeMeasures |-> <<>>,
   effectiveTotalRate |-> Fixed(0)]

TariffsService_calculateLandedCost_NoVat(hsCode, origin, destination, cifValue) ==
  LET rates == TariffsService_getDutyRates(hsCode, origin, destination)
      dutyAmount == JsMul(cifValue, JsDiv(rates.effectiveTotalRate, Fixed(100)))
      vatRate == JsDiv(Fixed(2), Fixed(10))
      vatAmount == JsMul(JsAdd(cifValue, dutyAmount), vatRate)
  IN [hsCode |-> hsCode, origin |-> origin, destination |-> destination,
      cifValue |-> cifValue, dutyRate |-> rates.effectiveTotalRate,
      dutyAmount |-> dutyAmount, vatRate |-> JsMul(vatRate, Fixed(100)),
      vatAmount |-> vatAmount,
      totalLandedCost |-> JsAdd(cifValue, dutyAmount),
      disclaimer |-> "This is an estimate. Actual costs may vary based on specific circumstances."]

TariffsService_calculateLandedCost(hsCode, origin, destination, cifValue) ==
  LET rates == TariffsService_getDutyRates(hsCode, origin, destination)
      dutyAmount == JsMul(cifValue, JsDiv(rates.effectiveTotalRate, Fixed(100)))
      vatRate == JsDiv(Fixed(2), Fixed(10))
      vatAmount == JsMul(JsAdd(cifValue, dutyAmount), vatRate)
  IN [hsCode |-> hsCode, origin |-> origin, destination |-> destination,
      cifValue |-> cifValue, dutyRate |-> rates.effectiveTotalRate,
      dutyAmount |-> dutyAmount, vatRate |-> JsMul(vatRate, Fixed(100)),
      vatAmount |-> vatAmount,
      totalLandedCost |-> JsAdd(JsAdd(cifValue, dutyAmount), vatAmount),
      disclaimer |-> "This is an estimate. Actual costs may vary based on specific circumstances."]

\* hsCode query strings: six, eight and ten digits; four and eleven digits;
\* six characters of which one is a letter
TariffHsCodes ==
  {<<"7", "3", "0", "8", "9", "0">>,
   <<"7", "3", "0", "8", "9", "0", "0", "0">>,
   <<"7", "3", "0", "8", "9", "0", "0", "0", "1", "0">>,
   <<"7", "3", "0", "8">>,
   <<"7", "3", "0", "8", "9", "0", "0", "0", "1", "0", "5">>,
   <<"7", "3", "O", "8", "9", "0">>}

TariffCountries == {"CN", "DE"}

\* cifValue after the pipe's conversion +value of the query string: a
\* number of either sign, or NaN for text that is not a number
CifValues == {Fixed(n) : n \in {-100, -1, 0, 1, 3, 10000}} \cup {JsNaN}

TariffIdle == [phase |-> "idle", op |-> "", hsCode |-> <<>>, origin |-> "",
               destination |-> "", cifValue |-> Fixed(0),
               response |-> [kind |-> "none"]]

TariffInit == tf = TariffIdle

\* GET /tariffs/duty-rates and GET /tariffs/landed-cost
TariffCall ==
  /\ tf.phase \in {"idle", "returned"}
  /\ \E h \in TariffHsCodes, o \in TariffCountries, d \in TariffCountries :
       \/ tf' = [TariffIdle EXCEPT !.phase = "called", !.op = "getDutyRates",
                                   !.hsCode = h, !.origin = o,
                                   !.destination = d]
       \/ \E c \in CifValues :
            tf' = [TariffIdle EXCEPT !.phase = "called",
                                     !.op = "calculateLandedCost",
                                     !.hsCode = h, !.origin = o,
                                     !.destination = d, !.cifValue = c]
  /\ UNCHANGED <<req, log, issued, tg, ex, sq, mono, rq, cl>>

\* the controller method returns what the service method returns
TariffReturn ==
  /\ tf.phase = "called"
  /\ tf' = [tf EXCEPT
       !.phase = "returned",
       !.response =
         IF tf.op = "getDutyRates"
         THEN [kind |-> "quote",
               body |-> TariffsService_getDutyRates(tf.hsCode, tf.origin,
                                                    tf.destination)]
         ELSE [kind |-> "estimate",
               body |-> TariffsService_calculateLandedCost(
                          tf.hsCode, tf.origin, tf.destination, tf.cifValue)]]
  /\ UNCHANGED <<req, log, issued, tg, ex, sq, mono, rq, cl>>

(***************************************************************************)
(* JSON values of a request body and property values of the DTO made of    *)
(* it.  A string is the sequence of its characters; an array of strings is *)
(* carried by its length, "arrx" being an array with an element that is    *)
(* not a string; "absent" is a property that is not there (undefined).     *)
(***************************************************************************)
JAbsent == [t |-> "absent", n |-> 0, chars |-> <<>>]

JNull == [t |-> "null", n |-> 0, chars |-> <<>>]

JNumber(k) == [t |-> "num", n |-> k, chars |-> <<>>]

JNaN == [t |-> "nan", n |-> 0, chars |-> <<>>]

JString(cs) == [t |-> "str", n |-> 0, chars |-> cs]

JArray(k) == [t |-> "arr", n |-> k, chars |-> <<>>]

JMixedArray(k) == [t |-> "arrx", n |-> k, chars |-> <<>>]

Digits == <<"0", "1", "2", "3", "4", "5", "6", "7", "8", "9">>

IsDigit(c) == \E i \in DOMAIN Digits : Digits[i] = c

DigitValue(c) == (CHOOSE i \in DOMAIN Digits : Digits[i] = c) - 1

RECURSIVE ParseDigits(_)
ParseDigits(cs) ==
  IF cs = <<>> THEN 0
  ELSE 10 * ParseDigits(SubSeq(cs, 1, Len(cs) - 1)) + DigitValue(cs[Len(cs)])

\* Number(v): a string of digits is its value, the empty string and the
\* empty array are 0, other text and other arrays are NaN
ToNumber(v) ==
  CASE v.t = "num" -> v
    [] v.t = "str" ->
         IF \A i \in DOMAIN v.chars : IsDigit(v.chars[i])
         THEN JNumber(ParseDigits(v.chars)) ELSE JNaN
    [] v.t \in {"arr", "arrx"} -> IF v.n = 0 THEN JNumber(0) ELSE JNaN
    [] v.t = "null" -> JNumber(0)
    [] OTHER -> JNaN

\* v || d
JOr(v, d) ==
  IF \/ v.t \in {"absent", "null", "nan"}
     \/ (v.t = "num" /\ v.n = 0)
     \/ (v.t = "str" /\ v.chars = <<>>)
  THEN d ELSE v

(***************************************************************************)
(* SearchShipmentsDto: the properties with their decorators, as far as the *)
(* filters for HS code, geography, dates, ranges, exclusion and pagination *)
(* go.                                                                     *)
(***************************************************************************)
TextFields == {"hsCode"}

ListFields == {"originCountries", "destinationCountries", "portsOfLoading",
               "portsOfDischarge", "excludeCompanyIds"}

\* list properties that carry @Transform(string => [string])
TransformedFields == {"originCountries", "destinationCountries"}

DateFields == {"dateFrom", "dateTo"}

RangeFields == {"minQuantity", "maxQuantity", "minValueUsd", "maxValueUsd",
                "minUnitPrice", "maxUnitPrice"}

\* properties that carry @Type(() => Number) and @IsNumber()
NumberFields == RangeFields \cup {"page", "pageSize"}

Fields == TextFields \cup ListFields \cup DateFields \cup NumberFields

\* @MaxLength
MaxLength(f) == 10

\* @ArrayMaxSize
ArrayMaxSize(f) == IF f = "excludeCompanyIds" THEN 100 ELSE 50

\* @Min
Min(f) == IF f \in {"page", "pageSize"} THEN 1 ELSE 0

Max_PageSize1000(f) == 1000

\* @Max, for the one property that carries it
Max(f) == 100

HasMax(f) == f = "pageSize"

\* the property initializers of the class
Initializer(f) ==
  CASE f = "page" -> JNumber(1)
    [] f = "pageSize" -> JNumber(20)
    [] OTHER -> JAbsent

\* validator.js isISO8601 on a calendar date YYYY-MM-DD
IsDateString(cs) ==
  /\ Len(cs) = 10
  /\ \A i \in {1, 2, 3, 4, 6, 7, 9, 10} : IsDigit(cs[i])
  /\ cs[5] = "-" /\ cs[8] = "-"
  /\ ParseDigits(SubSeq(cs, 6, 7)) \in 1..12
  /\ ParseDigits(SubSeq(cs, 9, 10)) \in 1..31

\* class-transformer plainToInstance: a property that is not in the body
\* keeps its initializer; @Type and @Transform apply to the others
PlainToInstance(body) ==
  [f \in Fields |->
     LET v == body[f]
     IN IF v.t = "absent" THEN Initializer(f)
        ELSE IF f \in NumberFields
             THEN (IF v.t = "null" THEN v ELSE ToNumber(v))
        ELSE IF f \in TransformedFields /\ v.t = "str" THEN JArray(1)
        ELSE v]

\* class-validator on one property: @IsOptional skips null and undefined
PropertyValid(f, v) ==
  \/ v.t \in {"absent", "null"}
  \/ /\ f \in TextFields
     /\ v.t = "str" /\ Len(v.chars) <= MaxLength(f)
  \/ /\ f \in ListFields
     /\ v.t = "arr" /\ v.n <= ArrayMaxSize(f)
  \/ /\ f \in DateFields
     /\ v.t = "str" /\ IsDateString(v.chars)
  \/ /\ f \in NumberFields
     /\ v.t = "num" /\ v.n >= Min(f)
     /\ (HasMax(f) => v.n <= Max(f))

\* the properties named by the errors of validate(dto)
ValidationErrors(dto) == {f \in Fields : ~PropertyValid(f, dto[f])}

(***************************************************************************)
(* ShipmentsService.search and ShipmentsService.findByCompany.             *)
(***************************************************************************)
\* the object literal both methods return
SearchResult(page, pageSize) ==
  [items |-> <<>>,
   total |-> 0,
   page |-> page,
   pageSize |-> pageSize,
   totalPages |-> 0,
   aggregations |->
     [byOriginCountry |-> <<>>, byDestinationCountry |-> <<>>,
      byHsChapter |-> <<>>, byTransportMode |-> <<>>, byCarrier |-> <<>>,
      valueRange |-> [min |-> 0, max |-> 0, avg |-> 0],
      quantityRange |-> [min |-> 0, max |-> 0, avg |-> 0]]]

ShipmentsService_search_OnePage(searchDto) ==
  [SearchResult(JOr(searchDto["page"], JNumber(1)),
                JOr(searchDto["pageSize"], JNumber(20)))
     EXCEPT !.totalPages = 1]

ShipmentsService_search_CarrierBucket(searchDto) ==
  [SearchResult(JOr(searchDto["page"], JNumber(1)),
                JOr(searchDto["pageSize"], JNumber(20)))
     EXCEPT !.aggregations.byCarrier = <<[key |-> "MAERSK", count |-> 1]>>]

ShipmentsService_search_TotalIsMinValue(searchDto) ==
  [SearchResult(JOr(searchDto["page"], JNumber(1)),
                JOr(searchDto["pageSize"], JNumber(20)))
     EXCEPT !.total = searchDto["minValueUsd"].n]

ShipmentsService_search(searchDto) ==
  SearchResult(JOr(searchDto["page"], JNumber(1)),
               JOr(searchDto["pageSize"], JNumber(20)))

ShipmentsService_findByCompany(pagination) ==
  SearchResult(pagination.page, pagination.pageSize)

(***************************************************************************)
(* A request with a shipment query: POST /shipments/search, whose body the *)
(* ValidationPipe turns into a SearchShipmentsDto and validates, and       *)
(* GET /shipments/by-company/:companyId, whose page and pageSize query     *)
(* strings the pipe converts with +value.                                  *)
(***************************************************************************)
Chars_730890 == <<"7", "3", "0", "8", "9", "0">>

Chars_7308Star == <<"7", "3", "0", "8", "*">>

Chars_73StarStar08 == <<"7", "3", "*", "*", "0", "8">>

Chars_Star7308 == <<"*", "7", "3", "0", "8">>

Chars_ElevenDigits == <<"7", "3", "0", "8", "9", "0", "0", "0", "1", "0", "5">>

Chars_Jan1 == <<"2", "0", "2", "4", "-", "0", "1", "-", "0", "1">>

Chars_Dec31 == <<"2", "0", "2", "4", "-", "1", "2", "-", "3", "1">>

Chars_Month13 == <<"2", "0", "2", "4", "-", "1", "3", "-", "0", "1">>

\* values a client can send for a property
Options(f) ==
  CASE f = "hsCode" ->
         {JString(Chars_730890), JString(Chars_7308Star),
          JString(Chars_73StarStar08), JString(Chars_Star7308),
          JString(Chars_ElevenDigits), JNumber(7308), JNull}
    [] f = "excludeCompanyIds" ->
         {JArray(1), JArray(100), JArray(101), JString(<<"c", "1">>)}
    [] f \in ListFields ->
         {JArray(1), JArray(50), JArray(51), JString(<<"C", "N">>),
          JMixedArray(2)}
    [] f \in DateFields ->
         {JString(Chars_Jan1), JString(Chars_Dec31), JString(Chars_Month13)}
    [] f \in RangeFields ->
         {JNumber(-1), JNumber(0), JNumber(10), JNumber(20),
          JString(<<"1", "5">>), JString(<<"a", "b", "c">>)}
    [] f = "page" ->
         {JNull, JNumber(0), JNumber(1), JNumber(3), JString(<<"2">>),
          JString(<<"a", "b", "c">>)}
    [] f = "pageSize" ->
         {JNull, JNumber(0), JNumber(1), JNumber(50), JNumber(100),
          JNumber(101)}

EmptyBody == [f \in Fields |-> JAbsent]

\* bodies that set up to two of the properties among fs
Bodies(fs) ==
  UNION {{[f \in Fields |->
             IF f = g1 THEN x ELSE IF f = g2 THEN y ELSE JAbsent] :
            x \in Options(g1) \cup {JAbsent},
            y \in Options(g2) \cup {JAbsent}} : <<g1, g2>> \in fs \X fs}

\* the page and pageSize query strings of the by-company route
PageQueries == {<<"0">>, <<"1">>, <<"3">>}

PageSizeQueries == {<<"0">>, <<"1">>, <<"2", "0">>, <<"1", "0", "0", "0">>}

SearchIdle == [phase |-> "idle", op |-> "", body |-> EmptyBody,
               dto |-> EmptyBody, response |-> [kind |-> "none"]]

SearchInit == sq = SearchIdle

SearchArrive ==
  /\ sq.phase = "idle"
  /\ \/ \E b \in Bodies(Fields) :
          sq' = [SearchIdle EXCEPT !.phase = "pipe", !.op = "searchShipments",
                                   !.body = b]
     \/ \E p \in PageQueries, ps \in PageSizeQueries :
          sq' = [SearchIdle EXCEPT
                   !.phase = "pipe", !.op = "getShipmentsByCompany",
                   !.body = [EmptyBody EXCEPT !["page"] = JString(p),
                                              !["pageSize"] = JString(ps)]]
  /\ UNCHANGED <<req, log, issued, tg, ex, tf, mono, rq, cl>>

\* the ValidationPipe: a body that fails validation is answered 400 with the
\* messages of the failing properties, and the handler is not called
SearchValidate ==
  /\ sq.phase = "pipe"
  /\ IF sq.op = "searchShipments"
     THEN LET dto == PlainToInstance(sq.body)
              errors == ValidationErrors(dto)
          IN IF errors = {}
             THEN sq' = [sq EXCEPT !.phase = "handler", !.dto = dto]
             ELSE sq' = [sq EXCEPT !.phase = "done",
                                   !.response = [kind |-> "error",
                                                 statusCode |-> 400,
                                                 fields |-> errors]]
     ELSE sq' = [sq EXCEPT
                   !.phase = "handler",
                   !.dto = [EmptyBody EXCEPT
                              !["page"] = ToNumber(sq.body["page"]),
                              !["pageSize"] = ToNumber(sq.body["pageSize"])]]
  /\ UNCHANGED <<req, log, issued, tg, ex, tf, mono, rq, cl>>

\* the controller method returns what the service method returns
SearchExecute ==
  /\ sq.phase = "handler"
  /\ sq' = [sq EXCEPT
       !.phase = "done",
       !.response =
         [kind |-> "result",
          body |-> IF sq.op = "searchShipments"
                   THEN ShipmentsService_search(sq.dto)
                   ELSE ShipmentsService_findByCompany(
                          [page |-> sq.dto["page"],
                           pageSize |-> sq.dto["pageSize"]])]]
  /\ UNCHANGED <<req, log, issued, tg, ex, tf, mono, rq, cl>>

SearchRespond ==
  /\ sq.phase = "done"
  /\ sq' = SearchIdle
  /\ UNCHANGED <<req, log, issued, tg, ex, tf, mono, rq, cl>>

(***************************************************************************)
(* Two searches of one record set: the second query is the first with one  *)
(* bound of a range filter added or moved inwards.                         *)
(***************************************************************************)
BoundFields == RangeFields \cup DateFields

LowerBounds == {"minQuantity", "minValueUsd", "minUnitPrice", "dateFrom"}

\* a bound as a number: a date YYYY-MM-DD is the number YYYYMMDD
BoundValue(v) ==
  IF v.t = "str" THEN ParseDigits(SelectSeq(v.chars, IsDigit)) ELSE v.n

\* the bound new admits no value that the bound old excludes
Narrower(f, old, new) ==
  /\ new.t \notin {"absent", "null"}
  /\ \/ old.t \in {"absent", "null"}
     \/ IF f \in LowerBounds THEN BoundValue(new) >= BoundValue(old)
        ELSE BoundValue(new) <= BoundValue(old)

MonoIdle == [phase |-> "idle", field |-> "", q1 |-> EmptyBody,
             q2 |-> EmptyBody, total1 |-> 0, total2 |-> 0]

MonoInit == mono = MonoIdle

\* two bodies that pass validation
MonoCall ==
  /\ mono.phase = "idle"
  /\ \E b \in Bodies(BoundFields), f \in BoundFields :
       \E v \in Options(f) :
         LET d1 == PlainToInstance(b)
             d2 == PlainToInstance([b EXCEPT ![f] = v])
         IN /\ ValidationErrors(d1) = {}
            /\ ValidationErrors(d2) = {}
            /\ Narrower(f, d1[f], d2[f])
            /\ mono' = [MonoIdle EXCEPT !.phase = "called", !.field = f,
                                        !.q1 = d1, !.q2 = d2]
  /\ UNCHANGED <<req, log, issued, tg, ex, tf, sq, rq, cl>>

MonoReturn ==
  /\ mono.phase = "called"
  /\ mono' = [mono EXCEPT !.phase = "returned",
                          !.total1 = ShipmentsService_search(mono.q1).total,
                          !.total2 = ShipmentsService_search(mono.q2).total]
  /\ UNCHANGED <<req, log, issued, tg, ex, tf, sq, rq, cl>>

MonoRespond ==
  /\ mono.phase = "returned"
  /\ mono' = MonoIdle
  /\ UNCHANGED <<req, log, issued, tg, ex, tf, sq, rq, cl>>

(***************************************************************************)
(* The frontend's QueryClient: a query whose function is                   *)
(* shipmentsApi.search, run by React Query with the default options of     *)
(* Providers.  An attempt is one POST /shipments/search through the axios  *)
(* client, which rejects when the backend is unreachable, when its timeout *)
(* of 30 seconds passes, and on a response outside 2xx.                    *)
(***************************************************************************)
QueryKeys == 1..NQueries

\* defaultOptions.queries.retry
retry == 1

\* React Query retries a failed attempt while failureCount < retry
ShouldRetry_UpToFive(failureCount) == failureCount < 5

ShouldRetry(failureCount) == failureCount < retry

\* the codes of the errors axios rejects with
AxiosErrors == {"ERR_NETWORK", "ECONNABORTED", "ERR_BAD_RESPONSE"}

QueryIdle == [status |-> "idle", attempts |-> 0, failureCount |-> 0,
              data |-> "undefined", error |-> "null"]

QueryInit == rq = [k \in QueryKeys |-> QueryIdle]

\* the query is mounted and its first attempt starts
QueryFetch(k) ==
  /\ rq[k].status = "idle"
  /\ rq' = [rq EXCEPT ![k].status = "fetching", ![k].attempts = 1]
  /\ UNCHANGED <<req, log, issued, tg, ex, tf, sq, mono, cl>>

\* the attempt's response arrives: response.data is the query's data
AttemptResolves(k) ==
  /\ rq[k].status = "fetching"
  /\ rq' = [rq EXCEPT ![k].status = "success", ![k].data = "ShipmentSearchResult"]
  /\ UNCHANGED <<req, log, issued, tg, ex, tf, sq, mono, cl>>

\* the attempt is rejected: retried after a delay, or the query fails
AttemptRejects(k) ==
  /\ rq[k].status = "fetching"
  /\ \E e \in AxiosErrors :
       IF ShouldRetry(rq[k].failureCount)
       THEN rq' = [rq EXCEPT ![k].status = "paused",
                             ![k].failureCount = @ + 1]
       ELSE rq' = [rq EXCEPT ![k].status = "error",
                             ![k].failureCount = @ + 1,
                             ![k].error = e]
  /\ UNCHANGED <<req, log, issued, tg, ex, tf, sq, mono, cl>>

\* the retry delay has passed and the next attempt starts
RetryAfterDelay(k) ==
  /\ rq[k].status = "paused"
  /\ rq' = [rq EXCEPT ![k].status = "fetching", ![k].attempts = @ + 1]
  /\ UNCHANGED <<req, log, issued, tg, ex, tf, sq, mono, cl>>

(***************************************************************************)
(* CompaniesController.getSimilarCompanies and getTradeTimeline: the query *)
(* parameter, converted by the pipe with +value, and the value handed to   *)
(* the service.                                                            *)
(***************************************************************************)
\* Math.min(a, b)
MathMin(a, b) ==
  IF a.kind = "num" /\ b.kind = "num" THEN (IF a.n <= b.n THEN a ELSE b)
  ELSE JsNaN

\* a parameter with a default value
ParamDefault(v, d) == IF v.kind = "undef" THEN d ELSE v

\* the limit passed to CompaniesService.findSimilar
CompaniesController_getSimilarCompanies(limit) ==
  MathMin(ParamDefault(limit, JsNum(10)), JsNum(50))

\* the months passed to CompaniesService.getTradeTimeline
CompaniesController_getTradeTimeline(months) ==
  MathMin(ParamDefault(months, JsNum(12)), JsNum(36))

\* the limit or months query parameter: absent, a number, or text
ClampParams ==
  {JsUndef, JsNaN} \cup
  {JsNum(n) : n \in {-5, 0, 1, 10, 12, 35, 36, 37, 49, 50, 51, 1000}}

ClampCompanies == {"c1", "c2", "c3"}

ClampIdle == [phase |-> "idle", op |-> "", companyId |-> "", param |-> JsUndef,
              passed |-> JsUndef]

ClampInit == cl = ClampIdle

ClampCall ==
  /\ cl.phase \in {"idle", "returned"}
  /\ \E o \in {"getSimilarCompanies", "getTradeTimeline"},
        c \in ClampCompanies, v \in ClampParams :
       cl' = [ClampIdle EXCEPT !.phase = "called", !.op = o, !.companyId = c,
                               !.param = v]
  /\ UNCHANGED <<req, log, issued, tg, ex, tf, sq, mono, rq>>

ClampReturn ==
  /\ cl.phase = "called"
  /\ cl' = [cl EXCEPT
       !.phase = "returned",
       !.passed = IF cl.op = "getSimilarCompanies"
                  THEN CompaniesController_getSimilarCompanies(cl.param)
                  ELSE CompaniesController_getTradeTimeline(cl.param)]
  /\ UNCHANGED <<req, log, issued, tg, ex, tf, sq, mono, rq>>

(***************************************************************************)
(* Specifications.                                                         *)
(***************************************************************************)
Init == PipelineInit /\ GuardInit /\ ExportInit /\ TariffInit /\ SearchInit
        /\ MonoInit /\ QueryInit /\ ClampInit

\* the pipeline under any requests
Next ==
  \E s \in Slots :
    \/ Arrive(s, RequestInputs, MaxRequests)
    \/ JwtAuthGuard(s)
    \/ TierGuard(s)
    \/ ValidationPipe(s)
    \/ Handler(s)
    \/ Respond(s)

Spec == Init /\ [][Next]_vars

\* the pipeline under single compliance checks of one organization
NextChecks ==
  \E s \in Slots :
    \/ Arrive(s, CheckInputs, MaxChecks)
    \/ JwtAuthGuard(s)
    \/ TierGuard(s)
    \/ ValidationPipe(s)
    \/ Handler(s)
    \/ Respond(s)

SpecChecks == Init /\ [][NextChecks]_vars

NextGuard == GuardCall \/ GuardReturn

SpecGuard == Init /\ [][NextGuard]_vars

NextExport == ExportCall \/ ExportReturn

SpecExport == Init /\ [][NextExport]_vars

NextTariff == TariffCall \/ TariffReturn

SpecTariff == Init /\ [][NextTariff]_vars

NextSearch == SearchArrive \/ SearchValidate \/ SearchExecute \/ SearchRespond

SpecSearch == Init /\ [][NextSearch]_vars

NextMonotone == MonoCall \/ MonoReturn \/ MonoRespond

SpecMonotone == Init /\ [][NextMonotone]_vars

\* the pipeline serving one connection
NextOne ==
  \/ Arrive(1, RequestInputs, MaxRequests)
  \/ JwtAuthGuard(1)
  \/ TierGuard(1)
  \/ ValidationPipe(1)
  \/ Handler(1)
  \/ Respond(1)

SpecOne == Init /\ [][NextOne]_vars

\* the pipeline under metered requests whose callers may disconnect
NextCancel ==
  \E s \in Slots :
    \/ Arrive(s, {i \in RequestInputs : i.op \in MeteredOps}, MaxRequests)
    \/ Cancel(s)
    \/ JwtAuthGuard(s)
    \/ TierGuard(s)
    \/ ValidationPipe(s)
    \/ Handler(s)
    \/ Respond(s)

SpecCancel == Init /\ [][NextCancel]_vars

\* queries of the QueryClient; an attempt ends (axios has a timeout) and a
\* retry delay passes
NextQuery ==
  \E k \in QueryKeys :
    \/ QueryFetch(k)
    \/ AttemptResolves(k)
    \/ AttemptRejects(k)
    \/ RetryAfterDelay(k)

SpecQuery ==
  /\ Init
  /\ [][NextQuery]_vars
  /\ \A k \in QueryKeys :
       /\ WF_vars(AttemptResolves(k) \/ AttemptRejects(k))
       /\ WF_vars(RetryAfterDelay(k))

NextClamp == ClampCall \/ ClampReturn

SpecClamp == Init /\ [][NextClamp]_vars

(***************************************************************************)
(* Properties.                                                             *)
(***************************************************************************)
Quiescent == \A s \in Slots : req[s].pc = "idle"

IndexOf(seq, x) ==
  IF \E i \in DOMAIN seq : seq[i] = x
  THEN CHOOSE i \in DOMAIN seq : seq[i] = x /\ \A j \in DOMAIN seq : seq[j] = x => i <= j
  ELSE 0

\* C1: when an organization holding K single-check credits has sent N > K
\* single-check requests and all have been answered, exactly K of them
\* succeeded, the other N - K were refused, and its balance is 0.
C1_ExactlyBalanceManySucceed ==
  \A o \in Orgs :
    LET u == log[o]["COMPLIANCE_CHECK"]
        K == CreditsTotal
    IN (Quiescent /\ u.ok + u.err > K) =>
         /\ u.ok = K
         /\ u.err = (u.ok + u.err) - K
         /\ ComplianceService_getCreditsBalance(o).remaining = 0

\* C2: the balance of every (organization, credit type) pair, the allowance
\* less the credits consumed by the operations served, is never negative.
C2_BalanceNeverNegative ==
  \A o \in Orgs, t \in CreditTypes :
    ComplianceService_getCreditsBalance(o).total - log[o][t].credits >= 0

\* C3: no answered metered request leaves its reservation unresolved: after
\* a success the organization's ledger holds its entry COMMITTED, after a
\* failure past the tier check it holds its entry RELEASED.
C3_ReservationResolved ==
  \A s \in Slots :
    (/\ req[s].pc = "done"
     /\ req[s].op \in MeteredOps
     /\ "VALIDATE" \in {req[s].steps[i] : i \in DOMAIN req[s].steps}) =>
      LET ledger == CreditLedger(req[s].user.organizationId)
          final == IF req[s].response.kind = "error" THEN "RELEASED"
                   ELSE "COMMITTED"
      IN \E i \in DOMAIN ledger :
           /\ ledger[i].type = CheckCredits(req[s].op)
           /\ ledger[i].state = final

\* C4: a ledger entry is created RESERVED when a metered operation begins:
\* while the handler of a metered operation is about to run, the ledger of
\* the organization holds a RESERVED entry of the operation's credit type.
C4_EntryCreatedReserved ==
  \A s \in Slots :
    (req[s].pc = "handler" /\ req[s].op \in MeteredOps) =>
      LET ledger == CreditLedger(req[s].user.organizationId)
      IN \E i \in DOMAIN ledger :
           /\ ledger[i].type = CheckCredits(req[s].op)
           /\ ledger[i].state = "RESERVED"

\* C5: the steps of a request are ordered CHECK_TIER, RESERVE_CREDIT (metered
\* operations), invocation: a request refused by the tier check has reserved
\* nothing and its handler was not invoked, and an invoked metered handler
\* is preceded by its reservation, itself preceded by the tier check.
C5_GuardStepOrder ==
  \A s \in Slots :
    LET st == req[s].steps
        seen == {st[i] : i \in DOMAIN st}
    IN /\ (req[s].response = HttpError(403) =>
             "INVOKE" \notin seen /\ "RESERVE_CREDIT" \notin seen)
       /\ ("INVOKE" \in seen => /\ "CHECK_TIER" \in seen
                                /\ IndexOf(st, "CHECK_TIER") < IndexOf(st, "INVOKE"))
       /\ ("INVOKE" \in seen /\ req[s].op \in MeteredOps =>
             /\ "RESERVE_CREDIT" \in seen
             /\ IndexOf(st, "CHECK_TIER") < IndexOf(st, "RESERVE_CREDIT")
             /\ IndexOf(st, "RESERVE_CREDIT") < IndexOf(st, "INVOKE"))

\* the tier table of the specification
TierRank(t) ==
  CASE t = "STARTER" -> 1
    [] t = "PRO" -> 2
    [] t \in {"ENTERPRISE", "CHAMBER"} -> 3
    [] t = "GOV" -> 4

\* C6: for a handler requiring one of the five tiers and a caller of one of
\* the five tiers, TierGuard.canActivate admits exactly when the caller's
\* rank is at least the required rank (STARTER=1, PRO=2, ENTERPRISE=CHAMBER=3,
\* GOV=4); requiring PRO rejects STARTER and admits the other four.
C6_AdmitsIffRankSuffices ==
  (/\ tg.phase = "returned"
   /\ tg.requiredTier \in Tiers
   /\ tg.user.tier \in Tiers) =>
    /\ tg.verdict = (TierRank(tg.user.tier) >= TierRank(tg.requiredTier))
    /\ (tg.requiredTier = "PRO" => tg.verdict = (tg.user.tier # "STARTER"))

C6_Witness ==
  /\ tg.phase = "returned"
  /\ tg.requiredTier = "PRO"
  /\ tg.user.tier = "CHAMBER"
  /\ tg.verdict

UnrecognizedTier(x) == x \notin Tiers /\ x # Undefined

\* C7: the tier check fails closed: when the caller's tier or the handler's
\* required tier is a string outside the five tiers, the guard denies.
C7_FailsClosed ==
  (/\ tg.phase = "returned"
   /\ (UnrecognizedTier(tg.requiredTier) \/ UnrecognizedTier(tg.user.tier))) =>
    ~tg.verdict

\* README "Features by Tier": the tiers a feature is ticked for
FeaturesByTier(feature) ==
  CASE feature \in {"Shipment search", "Company profiles", "Tariff lookup"} ->
         {"STARTER", "PRO", "ENTERPRISE", "GOV"}
    [] feature \in {"Look-alike finder", "Price benchmarking", "PEP screening"} ->
         {"PRO", "ENTERPRISE", "GOV"}
    [] feature = "Adverse media" -> {"ENTERPRISE", "GOV"}
    [] feature = "Policy simulator" -> {"GOV"}

\* the handler that serves each README feature
FeatureHandler ==
  [searchShipments |-> "Shipment search",
   getCompany |-> "Company profiles",
   getDutyRates |-> "Tariff lookup",
   getSimilarCompanies |-> "Look-alike finder",
   getPriceDistribution |-> "Price benchmarking",
   runPepCheck |-> "PEP screening",
   runAdverseMediaCheck |-> "Adverse media",
   simulatePolicyImpact |-> "Policy simulator"]

\* C8: on each endpoint that serves a feature of the README tier table, the
\* guard admits a caller of tier STARTER, PRO, ENTERPRISE or GOV exactly when
\* the table ticks the feature for that tier.
C8_VerdictMatchesReadme ==
  (/\ tg.phase = "returned"
   /\ tg.handler \in DOMAIN FeatureHandler
   /\ tg.user.tier \in {"STARTER", "PRO", "ENTERPRISE", "GOV"}) =>
    tg.verdict = (tg.user.tier \in FeaturesByTier(FeatureHandler[tg.handler]))

C8_Witness ==
  /\ tg.phase = "returned"
  /\ tg.handler = "runPepCheck"
  /\ tg.user.tier = "STARTER"
  /\ ~tg.verdict

\* the export row caps of the specification
ExportCap(t) ==
  CASE t = "STARTER" -> 500
    [] t = "PRO" -> 5000
    [] t \in {"ENTERPRISE", "CHAMBER"} -> 50000
    [] t = "GOV" -> 100000

\* C9: the export row cap of a caller is STARTER 500, PRO 5,000, ENTERPRISE
\* 50,000, GOV 100,000, and CHAMBER the same as ENTERPRISE.
C9_CapByTier ==
  (ex.phase = "returned" /\ ex.user.tier \in Tiers) =>
    ex.response.message.limit = JsNum(ExportCap(ex.user.tier))

\* C10: an export whose query matches more rows than the caller's cap holds
\* exactly cap rows and signals truncated = TRUE; otherwise it holds every
\* matching row and signals no truncation.
C10_TruncationSignalled ==
  (ex.phase = "returned" /\ ex.response.message.limit.kind = "num") =>
    LET cap == ex.response.message.limit.n
        r == ex.response
    IN /\ {"rows", "truncated"} \subseteq DOMAIN r
       /\ r.rows = (IF ex.matched > cap THEN cap ELSE ex.matched)
       /\ r.truncated = (ex.matched > cap)

(***************************************************************************)
(* Tariffs.                                                                *)
(***************************************************************************)
\* a number of hundredths that is a whole number, as that whole number
Whole(v) == v.n \div 100

C12_NegativeCifRejected ==
  (tf.phase = "returned" /\ tf.op = "calculateLandedCost") =>
    /\ (tf.cifValue.kind = "num" /\ tf.cifValue.n < 0) =>
         (tf.response.kind = "error" /\ tf.response.statusCode = 400)
    /\ tf.response.kind = "estimate" =>
         LET e == tf.response.body
         IN \A v \in {e.cifValue, e.dutyAmount, e.totalLandedCost} :
              ~(v.kind = "num" /\ v.n < 0)

\* the lowest of the MFN rate and the preferential rates of a quote
LowestRate(q) ==
  LET rates == {q.mfnRate.n} \cup
               {q.preferentialRates[i].rate.n : i \in DOMAIN q.preferentialRates}
  IN CHOOSE x \in rates : \A y \in rates : x <= y

\* the sum of the rates the trade measures add: a QUOTA measure adds 0
RECURSIVE MeasureSum(_)
MeasureSum(ms) ==
  IF ms = <<>> THEN 0
  ELSE (IF Head(ms).type = "QUOTA" THEN 0 ELSE Head(ms).rate.n)
       + MeasureSum(Tail(ms))

WellFormedHsCode(cs) ==
  /\ Len(cs) \in 6..10
  /\ \A i \in DOMAIN cs : IsDigit(cs[i])

\* C14: a duty-rate request is answered NotFound exactly when its hsCode is
\* malformed; a well-formed hsCode for which no tariff line is held gets a
\* quote with mfnRate 0 and dataQuality "LOW".
C14_NotFoundIffMalformed ==
  (tf.phase = "returned" /\ tf.op = "getDutyRates") =>
    IF WellFormedHsCode(tf.hsCode)
    THEN /\ tf.response.kind = "quote"
         /\ tf.response.body.mfnRate = Fixed(0)
         /\ "dataQuality" \in DOMAIN tf.response.body
         /\ tf.response.body.dataQuality = "LOW"
    ELSE /\ tf.response.kind = "error"
         /\ tf.response.statusCode = 404

(***************************************************************************)
(* Shipment search.                                                        *)
(***************************************************************************)
\* the request was answered with a validation error
Rejected == sq.phase = "done" /\ sq.response.kind = "error"
            /\ sq.response.statusCode = 400

\* the request was answered with a search result
Answered == sq.phase = "done" /\ sq.response.kind = "result"

Facets == {"byOriginCountry", "byDestinationCountry", "byHsChapter",
           "byTransportMode", "byCarrier"}

RECURSIVE CountSum(_)
CountSum(buckets) ==
  IF buckets = <<>> THEN 0 ELSE Head(buckets).count + CountSum(Tail(buckets))

Wildcards(cs) == {i \in DOMAIN cs : cs[i] = "*"}

\* at most one wildcard, in the last position
TrailingWildcardOnly(cs) == Wildcards(cs) \subseteq {Len(cs)}

\* cs begins with prefix
BeginsWith(cs, prefix) ==
  Len(cs) >= Len(prefix) /\ SubSeq(cs, 1, Len(prefix)) = prefix

\* C18: a search whose hsCode has one trailing wildcard, such as "7308*", is
\* accepted as far as hsCode goes and its items all have an HS code beginning
\* with the prefix; a search whose hsCode has more than one wildcard or a
\* wildcard that is not last, such as "73**08", is rejected with a validation
\* error and no search is executed.
C18_HsCodeWildcard ==
  (/\ sq.op = "searchShipments"
   /\ sq.phase \in {"handler", "done"}
   /\ sq.body["hsCode"].t = "str"
   /\ Len(sq.body["hsCode"].chars) <= 10) =>
    LET cs == sq.body["hsCode"].chars
    IN IF TrailingWildcardOnly(cs)
       THEN /\ Rejected => "hsCode" \notin sq.response.fields
            /\ (Answered /\ Wildcards(cs) # {}) =>
                 \A i \in DOMAIN sq.response.body.items :
                   BeginsWith(sq.response.body.items[i].hsCode,
                              SubSeq(cs, 1, Len(cs) - 1))
       ELSE Rejected

\* the largest number of entries the specification allows a list filter
SizeCap(f) == IF f = "excludeCompanyIds" THEN 100 ELSE 50

\* the properties of a body that break the pagination and list-size rules
RuleBreaks(b) ==
  {f \in {"page"} : b[f].t = "num" /\ b[f].n < 1}
  \cup {f \in {"pageSize"} : b[f].t = "num" /\ b[f].n \notin 1..100}
  \cup {f \in ListFields : b[f].t \in {"arr", "arrx"} /\ b[f].n > SizeCap(f)}

\* C19: a search query with page < 1, pageSize outside 1..100, more than 50
\* entries in originCountries, destinationCountries, portsOfLoading or
\* portsOfDischarge, or more than 100 in excludeCompanyIds is rejected with a
\* validation error naming each such property; every search that is answered
\* ran with page >= 1 and 1 <= pageSize <= 100, page being 1 and pageSize 20
\* when the body has none.
C19_PaginationAndSizes ==
  (sq.op = "searchShipments" /\ sq.phase \in {"handler", "done"}) =>
    /\ RuleBreaks(sq.body) # {} =>
         (Rejected /\ RuleBreaks(sq.body) \subseteq sq.response.fields)
    /\ Answered =>
         LET res == sq.response.body
         IN /\ res.page.t = "num" /\ res.page.n >= 1
            /\ res.pageSize.t = "num" /\ res.pageSize.n \in 1..100
            /\ sq.body["page"].t = "absent" => res.page = JNumber(1)
            /\ sq.body["pageSize"].t = "absent" => res.pageSize = JNumber(20)

C19_Witness ==
  /\ Rejected
  /\ sq.op = "searchShipments"
  /\ sq.body["pageSize"] = JNumber(101)
  /\ sq.body["portsOfLoading"] = JArray(51)
  /\ sq.response.fields = {"pageSize", "portsOfLoading"}

\* the paired range filters
RangePairs == {<<"minQuantity", "maxQuantity">>, <<"minValueUsd", "maxValueUsd">>,
               <<"minUnitPrice", "maxUnitPrice">>, <<"dateFrom", "dateTo">>}

\* both bounds of a pair are given and the lower exceeds the upper
Inverted(d, pair) ==
  /\ d[pair[1]].t \in {"num", "str"}
  /\ d[pair[2]].t = d[pair[1]].t
  /\ BoundValue(d[pair[1]]) > BoundValue(d[pair[2]])

\* C20: every query that reaches the search has min <= max for quantity,
\* valueUsd and unitPrice and dateFrom <= dateTo wherever both bounds are
\* given; a request that breaks one of these is rejected with a validation
\* error.
C20_RangesOrdered ==
  (sq.op = "searchShipments" /\ sq.phase \in {"handler", "done"}) =>
    /\ sq.phase = "handler" =>
         \A pair \in RangePairs : ~Inverted(sq.dto, pair)
    /\ (\E pair \in RangePairs : Inverted(PlainToInstance(sq.body), pair)) =>
         Rejected

(***************************************************************************)
(* Retries of a search.                                                    *)
(***************************************************************************)
\* the errors of an unreachable backend and of a timeout
UpstreamUnavailable == {"ERR_NETWORK", "ECONNABORTED"}

QuerySettled(k) == rq[k].status \in {"success", "error"}

Invoked(r) == \E i \in DOMAIN r.steps : r.steps[i] = "INVOKE"

\* C22: a batch check over n companies whose handler ran either checked all
\* n companies, n being within the organization's allowance, or failed with
\* no company checked; it never checks companies beyond the credits the
\* organization holds.
C22_BatchAllOrNothing ==
  \A s \in Slots :
    (req[s].pc = "done" /\ req[s].op = "runBatchCheck" /\ Invoked(req[s])) =>
      \/ /\ req[s].response.kind = "batch"
         /\ req[s].response.items = req[s].n
         /\ req[s].n <=
              ComplianceService_getCreditsBalance(req[s].user.organizationId).total
      \/ req[s].response.kind = "error"

\* C23: once no request is in flight, after any requests and disconnections,
\* the balance an organization is reported to hold plus the credits of the
\* operations served to it equals its initial balance, for each credit type.
C23_NoCreditLeak ==
  Quiescent =>
    \A o \in Orgs, t \in CreditTypes :
      ComplianceService_getCreditsBalance(o).remaining + log[o][t].credits
        = ComplianceService_getCreditsBalance(o).total

C29_CreditsRemainingDecreases ==
  \A s \in Slots :
    (req[s].pc = "done" /\ req[s].op = "runCheck"
     /\ req[s].response.kind = "check") =>
      LET o == req[s].user.organizationId
      IN /\ req[s].response.creditsRemaining =
              ComplianceService_getCreditsBalance(o).remaining
         /\ req[s].response.creditsRemaining <
              ComplianceService_getCreditsBalance(o).total
         /\ \A s2 \in Slots \ {s} :
              (req[s2].pc = "done" /\ req[s2].op = "runCheck"
               /\ req[s2].response.kind = "check"
               /\ req[s2].user.organizationId = o) =>
                req[s2].response.creditsRemaining #
                  req[s].response.creditsRemaining

(***************************************************************************)
(* Normalization of list filters, clamps of the companies routes, the      *)
(* wired guard chain, the tier guard without a requirement or a user, and  *)
(* the units of a landed-cost estimate.                                    *)
(***************************************************************************)
\* C25: a single string sent for a list-valued filter (originCountries,
\* destinationCountries, portsOfLoading, portsOfDischarge, excludeCompanyIds)
\* is accepted and becomes the list of that one string in the query searched.
C25_SingletonExpansion ==
  (sq.op = "searchShipments" /\ sq.phase \in {"handler", "done"}) =>
    \A f \in ListFields :
      sq.body[f].t = "str" =>
        /\ Rejected => f \notin sq.response.fields
        /\ sq.phase = "handler" => sq.dto[f] = JArray(1)

\* the range the specification gives each parameter, and its default
ClampRange(op) == IF op = "getSimilarCompanies" THEN 1..50 ELSE 1..36

ClampDefault(op) == IF op = "getSimilarCompanies" THEN 10 ELSE 12

\* C26: the limit getSimilarCompanies passes to the service lies in 1..50 and
\* the months getTradeTimeline passes lies in 1..36 for every integer sent,
\* and is 10, respectively 12, when the parameter is absent.
C26_ClampedParams ==
  (cl.phase = "returned" /\ cl.param.kind \in {"num", "undef"}) =>
    /\ cl.passed.kind = "num"
    /\ cl.passed.n \in ClampRange(cl.op)
    /\ cl.param.kind = "undef" => cl.passed.n = ClampDefault(cl.op)

NoTier(user) == user = NoUser \/ user.tier \in {Undefined, ""}

\* C28: the tier guard admits every request to a handler that declares no
\* required tier; a request without a user or without a user tier is admitted
\* to a handler requiring one of the five tiers exactly when that tier is
\* STARTER; the guard leaves the request's user as it was.
C28_NoRequirementNoUser ==
  tg.phase = "returned" =>
    /\ tg.requiredTier = Undefined => tg.verdict
    /\ (NoTier(tg.user) /\ tg.requiredTier \in Tiers) =>
         tg.verdict = (tg.requiredTier = "STARTER")
    /\ tg.userAfter = tg.user

C28_Witness ==
  /\ tg.phase = "returned"
  /\ tg.user = NoUser
  /\ tg.requiredTier = "PRO"
  /\ ~tg.verdict

\* C30: in every landed-cost estimate for a numeric cifValue, with dutyRate
\* and vatRate as percentages, dutyAmount = cifValue x dutyRate / 100,
\* vatAmount = (cifValue + dutyAmount) x vatRate / 100 and totalLandedCost is
\* their sum with cifValue, not below cifValue when cifValue >= 0; every
\* estimate has a non-empty disclaimer and repeats the request's hsCode,
\* origin, destination and cifValue.
C30_ConsistentUnits ==
  (tf.phase = "returned" /\ tf.op = "calculateLandedCost") =>
    LET e == tf.response.body
    IN /\ e.disclaimer # ""
       /\ e.hsCode = tf.hsCode /\ e.origin = tf.origin
       /\ e.destination = tf.destination /\ e.cifValue = tf.cifValue
       /\ tf.cifValue.kind = "num" =>
            /\ e.dutyRate.kind = "num" /\ e.vatRate.kind = "num"
            /\ JsMul(e.cifValue, JsDiv(e.dutyRate, Fixed(100))) = e.dutyAmount
            /\ JsMul(JsAdd(e.cifValue, e.dutyAmount),
                     JsDiv(e.vatRate, Fixed(100))) = e.vatAmount
            /\ JsAdd(JsAdd(e.cifValue, e.dutyAmount), e.vatAmount)
                 = e.totalLandedCost
            /\ e.cifValue.n >= 0 => e.totalLandedCost.n >= e.cifValue.n

C30_Witness ==
  /\ tf.phase = "returned"
  /\ tf.op = "calculateLandedCost"
  /\ tf.cifValue = Fixed(3)
  /\ tf.response.body.vatRate = Fixed(20)
  /\ tf.response.body.vatAmount = JsNum(60)
  /\ tf.response.body.totalLandedCost = JsNum(360)

====
